---- MODULE Spec2Model ----
(***************************************************************************)
(* Model of server/app/main.py: the wkls-vis API.                          *)
(*                                                                         *)
(* Request handlers run on worker threads.  Five lookups are memoized by   *)
(* functools.lru_cache and reach the engine (wkls / DuckDB) through        *)
(* _with_duck_lock, which serializes on the re-entrant lock _DUCK_LOCK    *)
(* and retries once on any Exception.  The places and version handlers     *)
(* call the engine directly.                                               *)
(*                                                                         *)
(* Strings are sequences of character codes, so that str.lower() is        *)
(* modelled by what it does to each character.                             *)
(***************************************************************************)
EXTENDS Integers, Sequences, FiniteSets, TLC

VARIABLES
    lock,     \* _DUCK_LOCK: [owner, count] of the threading.RLock
    cache,    \* per cached function: the lru_cache entries, most recent first
    recency,  \* per cached function: its present keys by last access (history)
    pc,       \* per thread: where the handler it runs stands
    fn,       \* per thread: the cached function or handler it is in
    args,     \* per thread: the arguments the handler passed on (the cache key)
    calls,    \* per thread: invocations of fn made by the current request
    err,      \* per thread: the exceptions its invocations raised, in order
    result,   \* per thread: the value the cached function returned
    status    \* per thread: HTTP status of the response

vars == <<lock, cache, recency, pc, fn, args, calls, err, result, status>>

----------------------------------------------------------------------------
(* Strings *)

None == << -1 >>            \* Python's None for an optional parameter
Empty == << >>              \* the empty string ""

\* bool(s) of an optional string: None and "" are falsy
Truthy(s) == s # None /\ s # Empty

\* str.lower() on one character code (ASCII letters)
LowerChar(c) == IF c >= 65 /\ c <= 90 THEN c + 32 ELSE c

\* str.lower()
Lower(s) == [i \in DOMAIN s |-> LowerChar(s[i])]

us == <<117, 115>>          \* "us"
US == <<85, 83>>            \* "US"
zz == <<122, 122>>          \* "zz", a country the engine does not know
ca == <<99, 97>>            \* "ca"
CA == <<67, 65>>            \* "CA"
sf == <<115, 102>>          \* "sf"
atlantis == <<120, 120>>    \* "xx", a place the engine does not know
pct == <<37>>               \* "%", the default search pattern
ber == <<98>>               \* "b"
Ber == <<66>>               \* "B"


\* The n-th of a family of distinct lower-case two-letter names
Name(n) == <<97 + (n \div 26), 97 + (n % 26)>>

----------------------------------------------------------------------------
(* The engine (wkls), an external collaborator: what it knows, and how one *)
(* invocation of a lookup closure can end.                                 *)

NumNames == 300

KnownCountries == {us} \cup {Name(n) : n \in 1..NumNames}
KnownRegions == {<<us, ca>>}
KnownPlaces == {sf} \cup {Name(n) : n \in 1..NumNames}

\* wkls[country][region][place]: narrowing, as deep as the names given
Resolves(c, r, p) ==
    /\ Lower(c) \in KnownCountries
    /\ Truthy(r) => <<Lower(c), Lower(r)>> \in KnownRegions
    /\ Truthy(p) => Lower(p) \in KnownPlaces

\* An invocation returns, raises ValueError (name not found) or raises
\* some other Exception (a failure of the engine itself)
Outcomes(resolves) ==
    IF resolves THEN {"ok", "Exception"} ELSE {"ValueError", "Exception"}

----------------------------------------------------------------------------
(* functools.lru_cache: a bounded mapping kept in recency order.  A cache *)
(* is a sequence of entries [key, val], the most recently used first.     *)

MaxsizeCountries == 128
MaxsizeRegions == 128
MaxsizeSearch == 256
MaxsizeBoundary == 256
MaxsizeWkt == 256

CachedFns == {"countries", "regions", "search", "boundary", "wkt"}

maxsize(f) ==
    CASE f = "countries" -> MaxsizeCountries
      [] f = "regions" -> MaxsizeRegions
      [] f = "search" -> MaxsizeSearch
      [] f = "boundary" -> MaxsizeBoundary
      [] f = "wkt" -> MaxsizeWkt

Keys(c) == {c[i].key : i \in DOMAIN c}
KeySeq(c) == [i \in DOMAIN c |-> c[i].key]
IndexOf(c, k) == CHOOSE i \in DOMAIN c : c[i].key = k
Without(c, i) == SubSeq(c, 1, i - 1) \o SubSeq(c, i + 1, Len(c))

\* A lookup that leaves the order as it is (first in, first out)
LruHitNoMove(c, k) == c

\* The wrapper's lookup finds the key: its link moves to the front
LruHit(c, k) == <<c[IndexOf(c, k)]>> \o Without(c, IndexOf(c, k))

\* A store that never gives up an entry
LruStoreUnbounded(c, k, v, size) ==
    IF k \in Keys(c) THEN c ELSE <<[key |-> k, val |-> v]>> \o c

\* A wrapper that returns what the function returned and keeps nothing
LruStoreSkips(c, k, v, size) == c

\* A store that replaces the value of a key it finds present
LruStoreOverwrite(c, k, v, size) ==
    IF k \in Keys(c) THEN [c EXCEPT ![IndexOf(c, k)].val = v]
    ELSE IF Len(c) >= size
         THEN <<[key |-> k, val |-> v]>> \o SubSeq(c, 1, Len(c) - 1)
         ELSE <<[key |-> k, val |-> v]>> \o c

\* The wrapper after the user function returned: a key another call stored
\* in the meantime is left as it is; a full cache gives up its oldest link
LruStore(c, k, v, size) ==
    IF k \in Keys(c) THEN c
    ELSE IF Len(c) >= size
         THEN <<[key |-> k, val |-> v]>> \o SubSeq(c, 1, Len(c) - 1)
         ELSE <<[key |-> k, val |-> v]>> \o c

\* Every call of a lookup closure builds a new object. The caller that
\* built it is kept for the functions named here, whose caches hold one key
IdentityTracked == {"countries"}
Origin(f, t) == IF f \in IdentityTracked THEN t ELSE "-"

\* What the lookup closure of cached function f returns to caller t for its
\* arguments: the content, and the object's origin
Payload(f, a, t) == <<f, a, Origin(f, t)>>
Content(v) == <<v[1], v[2]>>

----------------------------------------------------------------------------
(* Requests and the handlers' own computations *)

Threads == {"t1", "t2"}
NoThread == "none"

Req(path, c, r, p, q, fmt, kind) ==
    [path |-> path, country |-> c, region |-> r, place |-> p, q |-> q,
     fmt |-> fmt, kind |-> kind]

NoFn == "none"
NoArgs == << >>
NoResult == << >>

CachedPaths == {"countries", "regions", "search", "boundary"}

\* The cached function a handler calls
CachedFn(r) ==
    CASE r.path = "countries" -> "countries"
      [] r.path = "regions" -> "regions"
      [] r.path = "search" -> "search"
      [] r.path = "boundary" -> IF r.fmt = "wkt" THEN "wkt" ELSE "boundary"

\* The arguments a handler passes to its cached function: the cache key
HandlerArgs(r) ==
    CASE r.path = "countries" -> << >>
      [] r.path = "regions" -> <<Lower(r.country)>>
      [] r.path = "search" ->
            <<Lower(r.country),
              IF Truthy(r.region) THEN Lower(r.region) ELSE Empty,
              IF r.q = None THEN pct ELSE r.q>>
      [] r.path = "boundary" ->
            <<Lower(r.country),
              IF Truthy(r.region) THEN Lower(r.region) ELSE Empty,
              IF Truthy(r.place) THEN Lower(r.place) ELSE Empty>>

\* How one invocation of the closure _fn of cached function f can end
FnOutcomes(f, a) ==
    CASE f = "countries" -> Outcomes(TRUE)
      [] f = "regions" -> Outcomes(Resolves(a[1], Empty, Empty))
      [] f = "search" -> Outcomes(Resolves(a[1], a[2], Empty))
      [] f \in {"boundary", "wkt"} -> Outcomes(Resolves(a[1], a[2], a[3]))

\* The except clauses of a handler: the status an exception is answered with
HandlerStatus(f, e) ==
    CASE f \in {"regions", "boundary", "wkt", "places"} ->
            IF e = "ValueError" THEN 400 ELSE 500
      [] f \in {"countries", "search", "version"} -> 500

----------------------------------------------------------------------------
(* _DUCK_LOCK, a threading.RLock *)

Free == [owner |-> NoThread, count |-> 0]

\* A lock that lets every caller in
CanAcquireAlways(l, t) == TRUE

\* acquire() returns at once for the owner and for anyone when it is free
CanAcquire(l, t) == l.owner = NoThread \/ l.owner = t

\* An acquire that counts twice what release gives back once
AcquiredTwice(l, t) == [owner |-> t, count |-> l.count + 2]

\* acquire(): the caller owns the lock one level deeper
Acquired(l, t) == [owner |-> t, count |-> l.count + 1]

\* A with block that keeps the lock when it is left
ReleasedKept(l) == l

\* release(): one level less, and the lock is free when none is left
\* A release that lowers the count and forgets to give up ownership
ReleasedOwnerKept(l) == [l EXCEPT !.count = IF l.count > 0 THEN l.count - 1 ELSE 0]

Released(l) == IF l.count <= 1 THEN Free ELSE [l EXCEPT !.count = l.count - 1]

\* History: key k of a cache was accessed; keys no longer present drop out
Accessed(rec, k, present) ==
    LET Other(x) == x # k /\ x \in present
    IN  IF k \in present THEN <<k>> \o SelectSeq(rec, Other)
        ELSE SelectSeq(rec, Other)

----------------------------------------------------------------------------
(* The state after the module is loaded *)

Init ==
    /\ lock = Free
    /\ cache = [f \in CachedFns |-> << >>]
    /\ recency = [f \in CachedFns |-> << >>]
    /\ pc = [t \in Threads |-> "idle"]
    /\ fn = [t \in Threads |-> NoFn]
    /\ args = [t \in Threads |-> NoArgs]
    /\ calls = [t \in Threads |-> 0]
    /\ err = [t \in Threads |-> << >>]
    /\ result = [t \in Threads |-> NoResult]
    /\ status = [t \in Threads |-> 0]

----------------------------------------------------------------------------
(* countries, regions, search, boundary: the handler normalizes its       *)
(* parameters and calls the cached function, whose wrapper looks the key  *)
(* up first.                                                              *)

\* A lookup made under the lock: a present key waits for the engine call
CacheHitUnderLock(t, r) ==
    LET f == CachedFn(r)
        a == HandlerArgs(r)
    IN  /\ pc[t] = "idle"
        /\ r.path \in CachedPaths
        /\ a \in Keys(cache[f])
        /\ lock.owner = NoThread
        /\ fn' = [fn EXCEPT ![t] = f]
        /\ args' = [args EXCEPT ![t] = a]
        /\ cache' = [cache EXCEPT ![f] = LruHit(cache[f], a)]
        /\ recency' = [recency EXCEPT ![f] = Accessed(recency[f], a, Keys(cache[f]))]
        /\ result' = [result EXCEPT ![t] = cache[f][IndexOf(cache[f], a)].val]
        /\ status' = [status EXCEPT ![t] = 200]
        /\ pc' = [pc EXCEPT ![t] = "done"]
        /\ UNCHANGED <<lock, calls, err>>

\* One cache for both formats of a boundary: a key missing for the format
\* asked is looked up under the other format
CacheHitAnyFormat(t, r) ==
    LET f == CachedFn(r)
        a == HandlerArgs(r)
        g == IF f \in {"boundary", "wkt"} /\ a \notin Keys(cache[f])
             THEN IF f = "wkt" THEN "boundary" ELSE "wkt"
             ELSE f
    IN  /\ pc[t] = "idle"
        /\ r.path \in CachedPaths
        /\ a \in Keys(cache[g])
        /\ fn' = [fn EXCEPT ![t] = f]
        /\ args' = [args EXCEPT ![t] = a]
        /\ cache' = [cache EXCEPT ![g] = LruHit(cache[g], a)]
        /\ recency' = [recency EXCEPT ![g] = Accessed(recency[g], a, Keys(cache[g]))]
        /\ result' = [result EXCEPT ![t] = cache[g][IndexOf(cache[g], a)].val]
        /\ status' = [status EXCEPT ![t] = 200]
        /\ pc' = [pc EXCEPT ![t] = "done"]
        /\ UNCHANGED <<lock, calls, err>>

\* The key is present: the stored value is returned and answered
CacheHit(t, r) ==
    LET f == CachedFn(r)
        a == HandlerArgs(r)
    IN  /\ pc[t] = "idle"
        /\ r.path \in CachedPaths
        /\ a \in Keys(cache[f])
        /\ fn' = [fn EXCEPT ![t] = f]
        /\ args' = [args EXCEPT ![t] = a]
        /\ cache' = [cache EXCEPT ![f] = LruHit(cache[f], a)]
        /\ recency' = [recency EXCEPT ![f] = Accessed(recency[f], a, Keys(cache[f]))]
        /\ result' = [result EXCEPT ![t] = cache[f][IndexOf(cache[f], a)].val]
        /\ status' = [status EXCEPT ![t] = 200]
        /\ pc' = [pc EXCEPT ![t] = "done"]
        /\ UNCHANGED <<lock, calls, err>>

\* A miss that waits while another caller is computing the same key
CacheMissSingleFlight(t, r) ==
    LET f == CachedFn(r)
        a == HandlerArgs(r)
    IN  /\ pc[t] = "idle"
        /\ r.path \in CachedPaths
        /\ a \notin Keys(cache[f])
        /\ \A u \in Threads \ {t} :
              ~(fn[u] = f /\ args[u] = a /\ pc[u] # "done")
        /\ fn' = [fn EXCEPT ![t] = f]
        /\ args' = [args EXCEPT ![t] = a]
        /\ pc' = [pc EXCEPT ![t] = "acquire1"]
        /\ UNCHANGED <<lock, cache, recency, calls, err, result, status>>

\* The key is absent: the wrapper calls the function, which enters
\* _with_duck_lock
CacheMiss(t, r) ==
    LET f == CachedFn(r)
        a == HandlerArgs(r)
    IN  /\ pc[t] = "idle"
        /\ r.path \in CachedPaths
        /\ a \notin Keys(cache[f])
        /\ fn' = [fn EXCEPT ![t] = f]
        /\ args' = [args EXCEPT ![t] = a]
        /\ pc' = [pc EXCEPT ![t] = "acquire1"]
        /\ UNCHANGED <<lock, cache, recency, calls, err, result, status>>

----------------------------------------------------------------------------
(* _with_duck_lock(fn) *)

\* with _DUCK_LOCK: (first attempt) and the call of fn begins
Acquire1(t) ==
    /\ pc[t] = "acquire1"
    /\ CanAcquire(lock, t)
    /\ lock' = Acquired(lock, t)
    /\ calls' = [calls EXCEPT ![t] = @ + 1]
    /\ pc' = [pc EXCEPT ![t] = "call1"]
    /\ UNCHANGED <<cache, recency, fn, args, err, result, status>>

\* An except clause that names the engine's exception alone
CaughtEngineOnly(e) == e = "Exception"

\* except Exception: catches whatever exception fn raised
Caught(e) == e \in {"ValueError", "Exception"}

\* fn returns, or raises and the call is made once more (an exception the
\* except clause did not catch would leave through the handler); the with
\* block releases the lock either way
Attempt1(t) ==
    /\ pc[t] = "call1"
    /\ lock' = Released(lock)
    /\ \E o \in FnOutcomes(fn[t], args[t]) :
          \/ /\ o = "ok"
             /\ result' = [result EXCEPT ![t] = Payload(fn[t], args[t], t)]
             /\ pc' = [pc EXCEPT ![t] = "store"]
             /\ UNCHANGED <<err, status>>
          \/ /\ o # "ok"
             /\ err' = [err EXCEPT ![t] = Append(@, o)]
             /\ pc' = [pc EXCEPT ![t] = IF Caught(o) THEN "acquire2" ELSE "done"]
             /\ status' = [status EXCEPT ![t] =
                    IF Caught(o) THEN @ ELSE HandlerStatus(fn[t], o)]
             /\ UNCHANGED result
    /\ UNCHANGED <<cache, recency, fn, args, calls>>

\* An except clause that re-raises the exception it caught
PropagatedFirst(errs) == errs[1]

\* The exception that leaves _with_duck_lock: the one the last call raised
Propagated(errs) == errs[Len(errs)]

\* with _DUCK_LOCK: (in the except clause) and the second call of fn begins
Acquire2(t) ==
    /\ pc[t] = "acquire2"
    /\ CanAcquire(lock, t)
    /\ lock' = Acquired(lock, t)
    /\ calls' = [calls EXCEPT ![t] = @ + 1]
    /\ pc' = [pc EXCEPT ![t] = "call2"]
    /\ UNCHANGED <<cache, recency, fn, args, err, result, status>>

\* A second failure that is swallowed: the wrapper gets a value to store
Attempt2Swallowed(t) ==
    /\ pc[t] = "call2"
    /\ lock' = Released(lock)
    /\ \E o \in FnOutcomes(fn[t], args[t]) :
          /\ result' = [result EXCEPT ![t] =
                IF o = "ok" THEN Payload(fn[t], args[t], t) ELSE NoResult]
          /\ err' = [err EXCEPT ![t] = IF o = "ok" THEN @ ELSE Append(@, o)]
    /\ pc' = [pc EXCEPT ![t] = "store"]
    /\ UNCHANGED <<cache, recency, fn, args, calls, status>>

\* The second call returns, or raises: the exception leaves the cached
\* function, nothing is stored, and the handler's except clauses answer
Attempt2(t) ==
    /\ pc[t] = "call2"
    /\ lock' = Released(lock)
    /\ \E o \in FnOutcomes(fn[t], args[t]) :
          \/ /\ o = "ok"
             /\ result' = [result EXCEPT ![t] = Payload(fn[t], args[t], t)]
             /\ pc' = [pc EXCEPT ![t] = "store"]
             /\ UNCHANGED <<err, status>>
          \/ /\ o # "ok"
             /\ err' = [err EXCEPT ![t] = Append(@, o)]
             /\ status' = [status EXCEPT ![t] =
                    HandlerStatus(fn[t], Propagated(Append(err[t], o)))]
             /\ pc' = [pc EXCEPT ![t] = "done"]
             /\ UNCHANGED result
    /\ UNCHANGED <<cache, recency, fn, args, calls>>

\* A store made inside the with block: it waits for the lock
StoreUnderLock(t) ==
    LET f == fn[t]
        c == LruStore(cache[f], args[t], result[t], maxsize(f))
    IN  /\ pc[t] = "store"
        /\ CanAcquire(lock, t)
        /\ cache' = [cache EXCEPT ![f] = c]
        /\ recency' = [recency EXCEPT ![f] =
              IF args[t] \in Keys(cache[f]) THEN @
              ELSE Accessed(@, args[t], Keys(c))]
        /\ status' = [status EXCEPT ![t] = 200]
        /\ pc' = [pc EXCEPT ![t] = "done"]
        /\ UNCHANGED <<lock, fn, args, calls, err, result>>

\* The wrapper stores what the function returned; the handler answers
Store(t) ==
    LET f == fn[t]
        c == LruStore(cache[f], args[t], result[t], maxsize(f))
    IN  /\ pc[t] = "store"
        /\ cache' = [cache EXCEPT ![f] = c]
        /\ recency' = [recency EXCEPT ![f] =
              IF args[t] \in Keys(cache[f]) THEN @
              ELSE Accessed(@, args[t], Keys(c))]
        /\ status' = [status EXCEPT ![t] = 200]
        /\ pc' = [pc EXCEPT ![t] = "done"]
        /\ UNCHANGED <<lock, fn, args, calls, err, result>>

\* The response is sent; the worker thread is free for the next request
Return(t) ==
    /\ pc[t] = "done"
    /\ pc' = [pc EXCEPT ![t] = "idle"]
    /\ fn' = [fn EXCEPT ![t] = NoFn]
    /\ args' = [args EXCEPT ![t] = NoArgs]
    /\ calls' = [calls EXCEPT ![t] = 0]
    /\ err' = [err EXCEPT ![t] = << >>]
    /\ result' = [result EXCEPT ![t] = NoResult]
    /\ status' = [status EXCEPT ![t] = 0]
    /\ UNCHANGED <<lock, cache, recency>>

----------------------------------------------------------------------------
(* places and version: the handlers call the engine themselves *)

\* places(): the scope is built and, by kind, the first listing is called
PlacesRequest(t, r) ==
    /\ pc[t] = "idle"
    /\ r.path = "places"
    /\ fn' = [fn EXCEPT ![t] = "places"]
    /\ args' = [args EXCEPT ![t] = <<Lower(r.country),
                  IF Truthy(r.region) THEN Lower(r.region) ELSE Empty>>]
    /\ pc' = [pc EXCEPT ![t] =
          CASE r.kind = "cities" -> "cities"
            [] r.kind = "counties" -> "counties"
            [] OTHER -> "all_cities"]
    /\ UNCHANGED <<lock, cache, recency, calls, err, result, status>>

\* How a listing of the scope can end
ListingOutcomes(a) == Outcomes(Resolves(a[1], a[2], Empty))

\* kind "cities" or "counties": df = obj.cities() or df = obj.counties()
\* ends and the handler answers
PlacesListing(t) ==
    /\ pc[t] \in {"cities", "counties"}
    /\ \E o \in ListingOutcomes(args[t]) :
          /\ err' = [err EXCEPT ![t] = IF o = "ok" THEN @ ELSE Append(@, o)]
          /\ status' = [status EXCEPT ![t] =
                 IF o = "ok" THEN 200 ELSE HandlerStatus("places", o)]
    /\ pc' = [pc EXCEPT ![t] = "done"]
    /\ UNCHANGED <<lock, cache, recency, fn, args, calls, result>>

\* any other kind: obj.cities() ends, an exception of it is passed over,
\* and obj.counties() is called
PlacesAllCities(t) ==
    /\ pc[t] = "all_cities"
    /\ pc' = [pc EXCEPT ![t] = "all_counties"]
    /\ UNCHANGED <<lock, cache, recency, fn, args, calls, err, result, status>>

\* obj.counties() ends, an exception of it is passed over, and the rows
\* collected are answered
PlacesAllCounties(t) ==
    /\ pc[t] = "all_counties"
    /\ status' = [status EXCEPT ![t] = 200]
    /\ pc' = [pc EXCEPT ![t] = "done"]
    /\ UNCHANGED <<lock, cache, recency, fn, args, calls, err, result>>

\* version(): wkls.overture_version() is called
VersionRequest(t, r) ==
    /\ pc[t] = "idle"
    /\ r.path = "version"
    /\ fn' = [fn EXCEPT ![t] = "version"]
    /\ pc' = [pc EXCEPT ![t] = "version"]
    /\ UNCHANGED <<lock, cache, recency, args, calls, err, result, status>>

\* wkls.overture_version() ends; the handler has no except clause
VersionReturn(t) ==
    /\ pc[t] = "version"
    /\ \E o \in Outcomes(TRUE) :
          /\ err' = [err EXCEPT ![t] = IF o = "ok" THEN @ ELSE Append(@, o)]
          /\ status' = [status EXCEPT ![t] =
                 IF o = "ok" THEN 200 ELSE HandlerStatus("version", o)]
    /\ pc' = [pc EXCEPT ![t] = "done"]
    /\ UNCHANGED <<lock, cache, recency, fn, args, calls, result>>

----------------------------------------------------------------------------
(* The requests explored: every endpoint, names the engine knows and does *)
(* not know, in both letter cases, optional parameters absent and empty   *)

Requests ==
    {Req("countries", None, None, None, None, "-", "-")}
    \cup {Req("regions", c, None, None, None, "-", "-") : c \in {us, US, zz}}
    \cup {Req("search", c, r, None, q, "-", "-") :
            c \in {us, US}, r \in {None, Empty}, q \in {ber, Ber}}
    \cup {Req("search", zz, None, None, None, "-", "-")}
    \cup {Req("boundary", us, r, p, None, fmt, "-") :
            r \in {None, Empty}, p \in {None, Empty, atlantis},
            fmt \in {"geojson", "wkt"}}
    \cup {Req("places", us, r, None, None, "-", k) :
            r \in {None, CA}, k \in {"all", "cities", "counties"}}
    \cup {Req("version", None, None, None, None, "-", "-")}

Next ==
    \E t \in Threads :
        \/ \E r \in Requests : CacheHit(t, r)
        \/ \E r \in Requests : CacheMiss(t, r)
        \/ Acquire1(t)
        \/ Attempt1(t)
        \/ Acquire2(t)
        \/ Attempt2(t)
        \/ Store(t)
        \/ Return(t)
        \/ \E r \in Requests : PlacesRequest(t, r)
        \/ PlacesListing(t)
        \/ PlacesAllCities(t)
        \/ PlacesAllCounties(t)
        \/ \E r \in Requests : VersionRequest(t, r)
        \/ VersionReturn(t)

Spec == Init /\ [][Next]_vars

----------------------------------------------------------------------------
(* A load that fills a cache: one cached function is asked for new names  *)
(* until its cache has turned over, and, once the cache is full, also for *)
(* its first and its latest name again.                                    *)

Extra == 2      \* new names asked for beyond a cache's capacity

\* The request for cached function f and a name
NamedRequest(f, name) ==
    CASE f = "regions" -> Req("regions", name, None, None, None, "-", "-")
      [] f = "search" -> Req("search", us, None, None, name, "-", "-")
      [] f = "boundary" -> Req("boundary", us, None, name, None, "geojson", "-")
      [] f = "wkt" -> Req("boundary", us, None, name, None, "wkt", "-")

\* The names are asked for in order.  The next new name for f: a cache
\* that was never full holds all the names asked for so far, and a full
\* one keeps the names stored since it filled up
NextName(f) ==
    LET c == cache[f]
        late == {j \in 1..Extra :
                   HandlerArgs(NamedRequest(f, Name(maxsize(f) + j))) \in Keys(c)}
    IN  IF Len(c) < maxsize(f) THEN Len(c) + 1
        ELSE maxsize(f) + Cardinality(late) + 1

Turned(f) == NextName(f) > maxsize(f) + Extra

\* The cached functions the load may go to: the one whose cache has
\* entries, and any one as long as every cache is empty
Loaded ==
    IF \A f \in CachedFns : cache[f] = << >> THEN CachedFns
    ELSE {f \in CachedFns : cache[f] # << >>}

\* One client sends the load; a second one joins it while the cache under
\* load is within one entry of its capacity
Sends(t) ==
    \/ t = "t1"
    \/ \E f \in Loaded : Len(cache[f]) >= maxsize(f) - 1

LoadRequestsOf(f) ==
    IF f = "countries" THEN {Req("countries", None, None, None, None, "-", "-")}
    ELSE IF Turned(f) THEN {}
    ELSE {NamedRequest(f, Name(NextName(f)))}
         \cup (IF Len(cache[f]) = maxsize(f)
               THEN {NamedRequest(f, Name(1)),
                     NamedRequest(f, Name(NextName(f) - 1))}
               ELSE {})

LoadRequests(t) ==
    IF Sends(t) THEN UNION {LoadRequestsOf(f) : f \in Loaded} ELSE {}

NextLRU ==
    \E t \in Threads :
        \/ \E r \in LoadRequests(t) : CacheHit(t, r)
        \/ \E r \in LoadRequests(t) : CacheMiss(t, r)
        \/ Acquire1(t)
        \/ Attempt1(t)
        \/ Acquire2(t)
        \/ Attempt2(t)
        \/ Store(t)
        \/ Return(t)

SpecLRU == Init /\ [][NextLRU]_vars

----------------------------------------------------------------------------
(* Progress: the cached functions under scheduling assumptions. A call of *)
(* fn that has begun ends (the engine answers or raises); a caller that   *)
(* asks for the lock again and again while it is freed again and again    *)
(* gets it; a wrapper that has a value stores it. Clients are free to     *)
(* send nothing more.                                                     *)

LiveRequests ==
    {Req("countries", None, None, None, None, "-", "-")}
    \cup {Req("regions", c, None, None, None, "-", "-") : c \in {us, zz}}
    \cup {Req("boundary", us, None, None, None, fmt, "-") : fmt \in {"geojson", "wkt"}}

NextLive ==
    \E t \in Threads :
        \/ \E r \in LiveRequests : CacheHit(t, r)
        \/ \E r \in LiveRequests : CacheMiss(t, r)
        \/ Acquire1(t)
        \/ Attempt1(t)
        \/ Acquire2(t)
        \/ Attempt2(t)
        \/ Store(t)
        \/ Return(t)

Fairness ==
    \A t \in Threads :
        /\ SF_vars(Acquire1(t)) /\ SF_vars(Acquire2(t))
        /\ WF_vars(Attempt1(t)) /\ WF_vars(Attempt2(t))
        /\ WF_vars(Store(t))

SpecLive == Init /\ [][NextLive]_vars /\ Fairness

----------------------------------------------------------------------------
(* Properties *)

\* A thread is inside a call of fn made by _with_duck_lock
InCall(t) == pc[t] \in {"call1", "call2"}

\* A thread is inside a call of the engine made by a handler itself
InBareCall(t) == pc[t] \in {"cities", "counties", "all_cities", "all_counties", "version"}

\* A thread has called a cached function and waits for _DUCK_LOCK
Waiting(t) == pc[t] \in {"acquire1", "acquire2"}

\* The current request of t was answered with an error after fn failed
Failed(t) == pc[t] = "done" /\ fn[t] \in CachedFns /\ status[t] # 200

\* C1: no two callers of the cached operations are inside an engine
\* invocation at the same moment, whether they run the same operation or
\* two different ones.
EngineCallsSerialized ==
    \A t1, t2 \in Threads : t1 # t2 => ~(InCall(t1) /\ InCall(t2))

\* C1 witness: one caller is inside its engine call while a caller of a
\* different operation waits for the lock.
SerializedWitness ==
    \E t1, t2 \in Threads :
        /\ InCall(t1) /\ Waiting(t2)
        /\ fn[t1] = "search" /\ fn[t2] = "boundary"

\* C2 (the claim as stated): every thread inside the engine holds
\* _DUCK_LOCK, so that no two threads are inside the engine together.
EveryEngineAccessLocked ==
    /\ \A t \in Threads : InCall(t) \/ InBareCall(t) => lock.owner = t
    /\ \A t1, t2 \in Threads :
          t1 # t2 => ~((InCall(t1) \/ InBareCall(t1)) /\ (InCall(t2) \/ InBareCall(t2)))

\* C3: one call of _with_duck_lock invokes fn once when the first
\* invocation succeeds, twice when the first fails (the second's result is
\* returned, or its exception propagates), and never more than twice.
AtMostTwoInvocations ==
    \A t \in Threads :
        /\ calls[t] <= 2
        /\ pc[t] = "acquire1" => calls[t] = 0
        /\ pc[t] = "call1" => calls[t] = 1
        /\ pc[t] \in {"acquire2", "call2"} => Len(err[t]) = 1
        /\ pc[t] = "store" => calls[t] = Len(err[t]) + 1
        /\ Failed(t) => calls[t] = 2 /\ Len(err[t]) = 2
        /\ pc[t] = "done" /\ fn[t] \in CachedFns /\ err[t] = << >> => calls[t] <= 1

\* C3 witness: a first invocation failed and the second one succeeded.
RetrySucceededWitness ==
    \E t \in Threads : pc[t] = "store" /\ err[t] = <<"Exception">> /\ calls[t] = 2

\* A request for a key that is present is being taken up by t
HitStep(t) ==
    /\ pc[t] = "idle" /\ pc'[t] # "idle"
    /\ fn'[t] \in CachedFns
    /\ args'[t] \in Keys(cache[fn'[t]])

\* C4: a get for a key present in the cache returns the stored entry with
\* no invocation of compute and without touching the lock, and it can do
\* so in every state, also while another caller holds the lock.
CacheHitSkipsEngine ==
    /\ [][\A t \in Threads :
            HitStep(t) =>
               /\ pc'[t] = "done" /\ status'[t] = 200
               /\ calls'[t] = 0
               /\ lock' = lock
               /\ \E i \in DOMAIN cache[fn'[t]] :
                     /\ cache[fn'[t]][i].key = args'[t]
                     /\ result'[t] = cache[fn'[t]][i].val]_vars
    /\ [](\A t \in Threads : \A r \in Requests :
            (/\ pc[t] = "idle"
             /\ r.path \in CachedPaths
             /\ HandlerArgs(r) \in Keys(cache[CachedFn(r)]))
            => ENABLED CacheHit(t, r))

\* C4 witness: a hit was answered with no invocation while another caller
\* is inside its engine call, holding the lock.
HitWhileLockedWitness ==
    \E t, u \in Threads :
        /\ t # u
        /\ pc[t] = "done" /\ fn[t] \in CachedFns
        /\ status[t] = 200 /\ calls[t] = 0
        /\ InCall(u) /\ lock.owner = u /\ fn[u] = fn[t]

\* C5 (the claim as stated): when both attempts of a get(k) have failed,
\* the cache has no entry for k.
NoEntryAfterFailure ==
    [][\A t \in Threads :
          pc[t] = "call2" /\ pc'[t] = "done"
          => args[t] \notin Keys(cache'[fn[t]])]_vars

\* C5 (amended): a cache gains a key only in the store of a get of that key
\* whose compute succeeded; a get whose attempts both failed leaves every
\* cache as it was; and a get of an absent key goes on to invoke compute.
OnlySuccessIsCached ==
    [][/\ \A f \in CachedFns :
            Keys(cache'[f]) # Keys(cache[f]) =>
               \E t \in Threads :
                  /\ pc[t] = "store" /\ pc'[t] = "done" /\ fn[t] = f
                  /\ result[t] = Payload(f, args[t], t)
                  /\ args[t] \in Keys(cache'[f]) \ Keys(cache[f])
                  /\ cache'[f][1] = [key |-> args[t], val |-> result[t]]
                  /\ Keys(cache'[f]) \ Keys(cache[f]) = {args[t]}
       /\ \A t \in Threads :
            pc[t] = "call2" /\ pc'[t] = "done" => cache' = cache
       /\ \A t \in Threads :
            (/\ pc[t] = "idle" /\ pc'[t] # "idle"
             /\ fn'[t] \in CachedFns
             /\ args'[t] \notin Keys(cache[fn'[t]]))
            => pc'[t] = "acquire1" /\ calls'[t] = 0]_vars

\* C5 witness: both attempts of a lookup the engine can answer have
\* failed, and its key is not in the cache.
FailureNotCachedWitness ==
    \E t \in Threads :
        /\ Failed(t) /\ calls[t] = 2
        /\ "ok" \in FnOutcomes(fn[t], args[t])
        /\ args[t] \notin Keys(cache[fn[t]])

\* The key cached function f uses for a name of the load
NamedKey(f, n) == HandlerArgs(NamedRequest(f, Name(n)))

\* C6: no cache ever holds more entries than its maxsize (128 for
\* countries and regions, 256 for search, boundary and wkt), no key is held
\* twice, and a store of a new key into a full cache removes exactly one
\* of the entries it held.
CapacityRespected ==
    /\ [](\A f \in CachedFns :
            /\ Len(cache[f]) <= maxsize(f)
            /\ Cardinality(Keys(cache[f])) = Len(cache[f]))
    /\ [][\A f \in CachedFns :
            (Len(cache[f]) = maxsize(f) /\ ~(Keys(cache'[f]) \subseteq Keys(cache[f])))
            => /\ Cardinality(Keys(cache[f]) \ Keys(cache'[f])) = 1
               /\ Cardinality(Keys(cache'[f]) \ Keys(cache[f])) = 1
               /\ Len(cache'[f]) = maxsize(f)]_vars

\* C6 witness: the search cache is full after a name beyond its capacity
\* was stored.
FullCacheStoredWitness ==
    /\ Len(cache["search"]) = MaxsizeSearch
    /\ NamedKey("search", MaxsizeSearch + 1) \in Keys(cache["search"])

\* C7: the entry a store evicts is the one whose last access, a store or
\* a hit, lies furthest back; the key accessed last is never the one
\* evicted, and the cache keeps its keys in the order of their last access.
EvictsLeastRecentlyUsed ==
    /\ [][\A f \in CachedFns :
            \A k \in Keys(cache[f]) \ Keys(cache'[f]) :
               /\ k = recency[f][Len(recency[f])]
               /\ k # recency[f][1]]_vars
    /\ [](\A f \in CachedFns : KeySeq(cache[f]) = recency[f])

\* C7 witness: the first name of a full search cache was hit when it was
\* the oldest entry, and the next store evicted the second name instead.
HitSurvivesEvictionWitness ==
    /\ Len(cache["search"]) = MaxsizeSearch
    /\ NamedKey("search", 1) \in Keys(cache["search"])
    /\ NamedKey("search", 2) \notin Keys(cache["search"])
    /\ NamedKey("search", MaxsizeSearch + 1) \in Keys(cache["search"])
    /\ cache["search"][1].key = NamedKey("search", MaxsizeSearch + 1)
    /\ cache["search"][2].key = NamedKey("search", 1)

\* A parameter with its letter case and its absence set aside
Folded(x) == IF Truthy(x) THEN Lower(x) ELSE Empty

\* Two requests of one endpoint that differ only in letter case or in an
\* optional parameter being absent or empty
Equivalent(r1, r2) ==
    /\ r1.path = r2.path /\ r1.fmt = r2.fmt /\ r1.kind = r2.kind
    /\ Folded(r1.country) = Folded(r2.country)
    /\ Folded(r1.region) = Folded(r2.region)
    /\ Folded(r1.place) = Folded(r2.place)
    /\ Folded(r1.q) = Folded(r2.q)

\* C8 (the claim as stated): once the result of a regions, search or
\* boundary request is cached, every request that differs from it only in
\* letter case or in absent versus empty parameters is a cache hit.
EquivalentRequestsHit ==
    \A r1, r2 \in Requests :
        (/\ r1.path \in {"regions", "search", "boundary"}
         /\ Equivalent(r1, r2)
         /\ HandlerArgs(r1) \in Keys(cache[CachedFn(r1)]))
        => \A t \in Threads : pc[t] = "idle" => ENABLED CacheHit(t, r2)

\* The request of t names a country, region or place the engine does not
\* know
Unknown(t) ==
    /\ fn[t] \in {"regions", "search", "boundary", "wkt"}
    /\ "ValueError" \in FnOutcomes(fn[t], args[t])

\* C9 (the claim as stated): a request that names an unknown country,
\* region or place never waits for or holds the lock, never has fn invoked
\* and never has a value to store.
UnknownNameSkipsEngine ==
    \A t \in Threads :
        Unknown(t) =>
            /\ ~Waiting(t) /\ ~InCall(t) /\ pc[t] # "store"
            /\ lock.owner # t
            /\ calls[t] = 0

\* C10 (the claim as stated): a request of a hierarchy-aware operation
\* that fails because a name is unknown is answered with status 400.
UnknownNameIs400 ==
    \A t \in Threads :
        (pc[t] = "done" /\ Unknown(t) /\ Propagated(err[t]) = "ValueError")
        => status[t] = 400

\* A step in which t ends its second call of fn with a value
RetrySucceeds(t) == pc[t] = "call2" /\ pc'[t] = "store"

\* A step in which the wrapper of t stores and the handler of t answers
StoreStep(t) == pc[t] = "store" /\ pc'[t] = "done"

LockReleasedOnEveryExit ==
    /\ \A t \in Threads : lock.owner = t <=> InCall(t)
    /\ lock.owner = NoThread <=> lock.count = 0
    /\ lock.owner \in Threads => lock.count = 1

\* C12 witness: t's first call has failed and t waits to retry while the
\* other caller, who got the lock in between, is inside its call of fn.
BetweenAttemptsWitness ==
    \E t, u \in Threads :
        /\ pc[t] = "acquire2" /\ Len(err[t]) = 1
        /\ InCall(u) /\ lock = [owner |-> u, count |-> 1]

\* Caller t has missed and has not yet stored
Computing(t) == pc[t] \in {"acquire1", "call1", "acquire2", "call2", "store"}

\* C13: misses are not coalesced. A caller whose key is absent starts its
\* own computation also while another caller is computing the same key;
\* each invokes fn itself (a caller with a value to store has made at
\* least one invocation and the value is its own), and the invocations of
\* the two never overlap.
NoCoalescing ==
    /\ [](\A t \in Threads : \A r \in Requests :
            (/\ pc[t] = "idle"
             /\ r.path \in CachedPaths
             /\ HandlerArgs(r) \notin Keys(cache[CachedFn(r)]))
            => ENABLED CacheMiss(t, r))
    /\ [](\A t, u \in Threads :
            (t # u /\ Computing(t) /\ Computing(u)
             /\ fn[t] = fn[u] /\ args[t] = args[u])
            => /\ ~(InCall(t) /\ InCall(u))
               /\ pc[t] = "store" =>
                     /\ calls[t] >= 1
                     /\ result[t] = Payload(fn[t], args[t], t))
    /\ [][\A t \in Threads :
            pc[t] = "acquire1" /\ pc'[t] # "acquire1"
            => pc'[t] = "call1" /\ calls'[t] = calls[t] + 1]_vars

\* C13 witness: both callers missed the same key and each has computed a
\* value for it that it is about to store.
BothComputedWitness ==
    \E t, u \in Threads :
        /\ t # u /\ pc[t] = "store" /\ pc[u] = "store"
        /\ fn[t] = fn[u] /\ args[t] = args[u]
        /\ calls[t] >= 1 /\ calls[u] >= 1
        /\ args[t] \notin Keys(cache[fn[t]])

\* C19: the lock is re-entrant but never re-entered. Its hold count is 0
\* or 1, and no caller asks for it while owning it.
HoldCountAtMostOne ==
    /\ lock.count \in {0, 1}
    /\ \A t \in Threads : Waiting(t) => lock.owner # t
    /\ \A t \in Threads : InCall(t) => lock = [owner |-> t, count |-> 1]

\* C19 witness: a caller holds the lock one level deep for its retry,
\* having held and released it for the first call.
ReacquiredWitness ==
    \E t \in Threads :
        pc[t] = "call2" /\ calls[t] = 2 /\ lock = [owner |-> t, count |-> 1]

\* C14 (the claim as stated): every store of a get leaves its key in the
\* cache with the value that get computed, so that of two callers that
\* computed the same key the one that stores last determines the entry.
LastWriteWins ==
    [][\A t \in Threads :
          StoreStep(t) =>
             \E i \in DOMAIN cache'[fn[t]] :
                cache'[fn[t]][i] = [key |-> args[t], val |-> result[t]]]_vars

\* C14 (amended): a store that finds its key absent puts it in front with
\* the value its caller computed; a store that finds the key present,
\* stored by another caller since the lookup, changes nothing: the entry
\* keeps the value stored first. No cache ever holds a key twice.
FirstWriteWins ==
    /\ [][\A t \in Threads :
            StoreStep(t) =>
               IF args[t] \in Keys(cache[fn[t]])
               THEN cache' = cache /\ recency' = recency
               ELSE cache'[fn[t]][1] = [key |-> args[t], val |-> result[t]]]_vars
    /\ [](\A f \in CachedFns : Cardinality(Keys(cache[f])) = Len(cache[f]))

\* C14 witness: both callers missed the key of countries, both computed
\* and both stored; the entry holds the object of t, who stored first, and
\* not the object of u, who stored last.
FirstWriterKeptWitness ==
    \E t, u \in Threads :
        /\ t # u /\ pc[t] = "done" /\ pc[u] = "done"
        /\ fn[t] = "countries" /\ fn[u] = "countries"
        /\ status[t] = 200 /\ status[u] = 200
        /\ calls[t] >= 1 /\ calls[u] >= 1
        /\ Len(cache["countries"]) = 1
        /\ cache["countries"][1].val = result[t]
        /\ result[u] = Payload("countries", args[u], u)
        /\ result[u] # result[t]

\* The steps of one get, from the lookup to the answer
GetOrder ==
    {<<"idle", "done">>, <<"idle", "acquire1">>, <<"acquire1", "call1">>,
     <<"call1", "store">>, <<"call1", "acquire2">>, <<"acquire2", "call2">>,
     <<"call2", "store">>, <<"call2", "done">>, <<"store", "done">>}

\* C15: a get that misses looks the key up, acquires the lock, invokes fn,
\* releases the lock and then stores, in this order; the lookup and the
\* store are made by a caller that does not own the lock and leave the
\* lock as it is, and the store does not wait for the lock.
LookupAndStoreOutsideLock ==
    /\ [][\A t \in Threads :
            fn'[t] \in CachedFns /\ pc'[t] # pc[t] /\ pc'[t] # "idle" =>
               /\ <<pc[t], pc'[t]>> \in GetOrder
               /\ pc[t] \in {"idle", "store"} =>
                     lock.owner # t /\ lock' = lock
               /\ Waiting(t) => lock.owner # t /\ lock'.owner = t
               /\ InCall(t) => lock.owner = t /\ lock'.owner # t
               /\ cache'[fn'[t]] # cache[fn'[t]] => pc[t] \in {"idle", "store"}]_vars
    /\ [](\A t \in Threads : pc[t] = "store" => ENABLED Store(t))

\* C15 witness: t has released the lock and is about to store while the
\* other caller owns the lock, inside its call of fn.
StoreWhileLockedWitness ==
    \E t, u \in Threads :
        /\ pc[t] = "store" /\ calls[t] >= 1
        /\ InCall(u) /\ lock.owner = u

\* C16: the five caches are independent. A step changes the entries, size
\* or order of at most the cache of the function the stepping get called;
\* what a hit returns was computed by that function; and a key present in
\* another function's cache only (a boundary's geometry, asked as text) is
\* a miss.
CachesIndependent ==
    /\ [][/\ \A f \in CachedFns :
               cache'[f] # cache[f] \/ recency'[f] # recency[f] =>
                  \E t \in Threads :
                     \/ HitStep(t) /\ fn'[t] = f
                     \/ StoreStep(t) /\ fn[t] = f
          /\ \A t \in Threads :
               HitStep(t) => result'[t][1] = fn'[t] /\ result'[t][2] = args'[t]
          /\ \A t \in Threads :
               (/\ pc[t] = "idle" /\ pc'[t] # "idle"
                /\ fn'[t] \in CachedFns
                /\ args'[t] \notin Keys(cache[fn'[t]]))
               => pc'[t] = "acquire1" /\ cache' = cache]_vars
    /\ [](\A f \in CachedFns : \A i \in DOMAIN cache[f] :
            cache[f][i].val[1] = f /\ cache[f][i].val[2] = cache[f][i].key)

\* C16 witness: a boundary is cached as geometry and a request for the
\* same country, region and place as text has missed and waits to compute.
OtherFormatMissesWitness ==
    \E t \in Threads :
        /\ fn[t] = "wkt" /\ pc[t] = "acquire1"
        /\ args[t] \in Keys(cache["boundary"])
        /\ args[t] \notin Keys(cache["wkt"])

\* C18: when both calls of fn fail, the exception that leaves is the second
\* call's and the first is dropped: the status answered is the one the
\* handler's except clauses give to the second exception, whatever the
\* first was.
SecondErrorPropagates ==
    \A t \in Threads :
        Failed(t) =>
           /\ Len(err[t]) = 2
           /\ status[t] = HandlerStatus(fn[t], err[t][2])
           /\ fn[t] \in {"regions", "boundary", "wkt"} =>
                 (status[t] = 400 <=> err[t][2] = "ValueError")

\* C18 witness: the first call failed with an engine error, the second
\* with a ValueError, and the answer is 400.
SecondErrorDecidesWitness ==
    \E t \in Threads :
        /\ Failed(t) /\ err[t] = <<"Exception", "ValueError">>
        /\ status[t] = 400

\* C17: the cached functions never deadlock. Whenever a caller is kept
\* waiting for the lock, the lock is owned by another caller that is inside
\* a call of fn, waits for nothing and can end that call; and, the engine
\* answering and the lock being granted fairly, every get that missed
\* comes to its answer, a value or a failure.
NeverDeadlocks ==
    /\ [](\A t \in Threads :
            Waiting(t) /\ ~CanAcquire(lock, t) =>
               \E u \in Threads \ {t} :
                  /\ lock.owner = u /\ InCall(u)
                  /\ ENABLED (Attempt1(u) \/ Attempt2(u)))
    /\ \A t \in Threads : Computing(t) ~> pc[t] = "done"

\* C17 witness: a caller that has made no invocation yet is kept waiting
\* by a caller that owns the lock for its retry.
WaitsBehindRetryWitness ==
    \E t, u \in Threads :
        /\ pc[t] = "acquire1" /\ calls[t] = 0 /\ ~CanAcquire(lock, t)
        /\ pc[u] = "call2" /\ lock.owner = u

============================================================================
